---- MODULE Spec2Model ----
(***************************************************************************)
(* Smart Wearable Platform API (src/main.py, src/schemas.py).              *)
(*                                                                         *)
(* The service keeps no state of its own: every handler reads or writes    *)
(* the document store through create_document / get_documents.  The model  *)
(* state is the store, the UTC clock, the response of the last request,    *)
(* and the positions of two seed() requests that run store call by store   *)
(* call.                                                                   *)
(*                                                                         *)
(* Representation of Python values:                                        *)
(*   str that is lower()-ed or searched : sequence of one-character strings*)
(*   other str, float literals          : TLA+ string                      *)
(*   dict / document                    : function from key to value       *)
(*   a key that is missing or null      : key not in DOMAIN                *)
(*   result of dict.get(k)              : <<v>>, or <<>> for None          *)
(*   datetime                           : minutes since the epoch          *)
(*   strftime("%Y-%m-%d")               : day number, minutes \div 1440    *)
(***************************************************************************)
EXTENDS Integers, Sequences, FiniteSets, TLC

VARIABLES store, now, resp, pc, sloc

vars == <<store, now, resp, pc, sloc>>

-----------------------------------------------------------------------------
(* Bounds of the exploration                                               *)

MaxDocs == 2

MaxTicks == 2

MaxSparse == 3

MaxStore == 4

-----------------------------------------------------------------------------
(* Python strings                                                          *)

UpperChars == <<"A","B","C","D","E","F","G","H","I","J","K","L","M",
                "N","O","P","Q","R","S","T","U","V","W","X","Y","Z">>

LowerChars == <<"a","b","c","d","e","f","g","h","i","j","k","l","m",
                "n","o","p","q","r","s","t","u","v","w","x","y","z">>

\* the lower-case letter of every upper-case letter
LowerOf ==
    [c \in {UpperChars[i] : i \in 1..Len(UpperChars)} |->
        LowerChars[CHOOSE i \in 1..Len(UpperChars) : UpperChars[i] = c]]

\* str.lower() on one character
LowerChar(c) == IF c \in DOMAIN LowerOf THEN LowerOf[c] ELSE c

\* str.lower()
lower(s) == [i \in 1..Len(s) |-> LowerChar(s[i])]

\* Python's  a in b  on strings
StrIn(a, b) ==
    \E i \in 1..(Len(b) - Len(a) + 1) : SubSeq(b, i, i + Len(a) - 1) = a

\* truthiness of an Optional[str] parameter or value held as <<v>> / <<>>
Truthy(o) == o # <<>> /\ o[1] # <<>>

None == <<>>

EmptyDict == <<>>

\* dict.get(k)
Get(d, k) == IF k \in DOMAIN d THEN <<d[k]>> ELSE None

\* dict.get(k, default)
GetD(d, k, default) == IF k \in DOMAIN d THEN d[k] ELSE default

\* d[k] raises KeyError when the key is missing
HasKey(d, k) == k \in DOMAIN d

\* m[k] = v on a dict
DictSet(m, k, v) == [x \in (DOMAIN m) \cup {k} |-> IF x = k THEN v ELSE m[x]]

-----------------------------------------------------------------------------
(* Collections                                                             *)

C_driver == <<"d","r","i","v","e","r">>
C_device == <<"d","e","v","i","c","e">>
C_healthrecord == <<"h","e","a","l","t","h","r","e","c","o","r","d">>
C_sleeprecord == <<"s","l","e","e","p","r","e","c","o","r","d">>
C_event == <<"e","v","e","n","t">>
C_user == <<"u","s","e","r">>

SeededCollections == {C_driver, C_device, C_healthrecord, C_sleeprecord, C_event}

Collections == SeededCollections \cup {C_user}

to_collection(name) == lower(name)

\* database.get_documents(collection, filter): the documents of the
\* collection, in store order, that carry every filter field with an
\* equal value
get_documents(st, collection, filt) ==
    SelectSeq(st[collection],
              LAMBDA d : \A k \in DOMAIN filt : HasKey(d, k) /\ d[k] = filt[k])

\* database.create_document(collection, record)
create_document(st, collection, record) ==
    [st EXCEPT ![collection] = Append(@, record)]

-----------------------------------------------------------------------------
(* Clock                                                                   *)

MinutesPerDay == 24 * 60

TickMinutes == 12 * 60

NowStart == 12 * 60

\* datetime.strftime("%Y-%m-%d")
strftime(t) == t \div MinutesPerDay

\* datetime - timedelta(hours, minutes)
minus(t, hours, minutes) == t - (hours * 60 + minutes)

-----------------------------------------------------------------------------
(* Literal demo data of seed()                                             *)

BudiSantoso == <<"B","u","d","i"," ","S","a","n","t","o","s","o">>
SitiAminah == <<"S","i","t","i"," ","A","m","i","n","a","h">>
DEV1001 == <<"D","E","V","-","1","0","0","1">>
DEV1002 == <<"D","E","V","-","1","0","0","2">>
LowBattery == <<"L","o","w"," ","B","a","t","t","e","r","y">>
SOS == <<"S","O","S">>
Jakarta == <<"J","a","k","a","r","t","a">>

SeedDrivers ==
    << [name |-> BudiSantoso, employee_id |-> "DRV001", phone |-> "081234567890",
        status |-> "active"],
       [name |-> SitiAminah, employee_id |-> "DRV002", phone |-> "081298765432",
        status |-> "active"] >>

SeedDevices ==
    << [device_id |-> DEV1001, driver_name |-> BudiSantoso, is_online |-> TRUE,
        battery |-> 87,
        last_location |-> [lat |-> "-6.2", lng |-> "106.82", address |-> Jakarta]],
       [device_id |-> DEV1002, driver_name |-> SitiAminah, is_online |-> FALSE,
        battery |-> 22,
        last_location |-> [lat |-> "-6.21", lng |-> "106.85", address |-> Jakarta]] >>

SeedHealth(today) ==
    << [driver_id |-> "DRV001", driver_name |-> BudiSantoso, device_id |-> DEV1001,
        timestamp |-> today, heart_rate |-> 78, bp_systolic |-> 145,
        bp_diastolic |-> 95, temperature |-> "36.8", calories |-> 1200,
        steps |-> 9500, duration_minutes |-> 75, kilometers |-> "6.8"],
       [driver_id |-> "DRV002", driver_name |-> SitiAminah, device_id |-> DEV1002,
        timestamp |-> today, heart_rate |-> 82, bp_systolic |-> 118,
        bp_diastolic |-> 78, temperature |-> "36.6", calories |-> 980,
        steps |-> 7200, duration_minutes |-> 60, kilometers |-> "4.9"] >>

SeedSleep(today) ==
    << [driver_id |-> "DRV001", driver_name |-> BudiSantoso, device_id |-> DEV1001,
        date |-> strftime(today), score |-> 58, duration_minutes |-> 320,
        segments |->
          << [start |-> minus(today, 7, 0), end |-> minus(today, 6, 45), type |-> "light"],
             [start |-> minus(today, 6, 45), end |-> minus(today, 5, 0), type |-> "deep"],
             [start |-> minus(today, 5, 0), end |-> minus(today, 4, 30), type |-> "rem"],
             [start |-> minus(today, 4, 30), end |-> minus(today, 4, 15), type |-> "awake"] >>],
       [driver_id |-> "DRV002", driver_name |-> SitiAminah, device_id |-> DEV1002,
        date |-> strftime(today), score |-> 82, duration_minutes |-> 420,
        segments |->
          << [start |-> minus(today, 8, 0), end |-> minus(today, 6, 0), type |-> "deep"],
             [start |-> minus(today, 6, 0), end |-> minus(today, 5, 0), type |-> "light"],
             [start |-> minus(today, 5, 0), end |-> minus(today, 4, 0), type |-> "rem"] >>] >>

SeedEvents(today) ==
    << [driver_id |-> "DRV001", driver_name |-> BudiSantoso, device_id |-> DEV1001,
        timestamp |-> today, status_event |-> LowBattery,
        location |-> [lat |-> "-6.2", lng |-> "106.82", address |-> Jakarta]],
       [driver_id |-> "DRV002", driver_name |-> SitiAminah, device_id |-> DEV1002,
        timestamp |-> today, status_event |-> SOS,
        location |-> [lat |-> "-6.21", lng |-> "106.85", address |-> Jakarta]] >>

\* the two records seed() builds for a collection
SeedDocs(collection, today) ==
    CASE collection = C_driver -> SeedDrivers
      [] collection = C_device -> SeedDevices
      [] collection = C_healthrecord -> SeedHealth(today)
      [] collection = C_sleeprecord -> SeedSleep(today)
      [] collection = C_event -> SeedEvents(today)

-----------------------------------------------------------------------------
(* seed(), the whole handler                                               *)

\* len(get_documents(to_collection(c))) == 0
SeedCheckEmpty(st, name) ==
    Len(get_documents(st, to_collection(name), EmptyDict)) = 0

SeedCreate_skipSecond(st, name, today, i) ==
    IF i = 2 THEN st
    ELSE create_document(st, to_collection(name), SeedDocs(name, today)[i])

\* create_document(to_collection(c), d_i)
SeedCreate(st, name, today, i) ==
    create_document(st, to_collection(name), SeedDocs(name, today)[i])

SeedBlock_noCheck(st, name, today) ==
    SeedCreate(SeedCreate(st, name, today, 1), name, today, 2)

\* one  if len(get_documents(c)) == 0: create; create  block
SeedBlock(st, name, today) ==
    IF SeedCheckEmpty(st, name)
    THEN SeedCreate(SeedCreate(st, name, today, 1), name, today, 2)
    ELSE st

seed_gateOnDriver(st, utcnow) ==
    IF SeedCheckEmpty(st, C_driver)
    THEN [c \in Collections |->
            IF c \in SeededCollections /\ st[c] = <<>>
            THEN SeedDocs(c, utcnow) ELSE st[c]]
    ELSE st

seed(st, utcnow) ==
    LET s1 == SeedBlock(st, C_driver, utcnow)
        s2 == SeedBlock(s1, C_device, utcnow)
        today == utcnow
        s3 == SeedBlock(s2, C_healthrecord, today)
        s4 == SeedBlock(s3, C_sleeprecord, today)
        s5 == SeedBlock(s4, C_event, today)
    IN  s5

NoResp == [op |-> "none"]

EmptyStore == [c \in Collections |-> <<>>]

Requests == {1, 2}

\* the order of the five blocks of seed()
SeedOrder == <<C_driver, C_device, C_healthrecord, C_sleeprecord, C_event>>

Idle == [p \in Requests |-> [at |-> "idle", k |-> 0]]

\* locals of a running seed(): today, and (for the record) the collections
\* whose emptiness check succeeded
NoLocals == [p \in Requests |-> [today |-> 0, found |-> {}]]

Init ==
    /\ store = EmptyStore
    /\ now = NowStart
    /\ resp = NoResp
    /\ pc = Idle
    /\ sloc = NoLocals

\* POST /seed
Seed ==
    /\ store' = seed(store, now)
    /\ resp' = [op |-> "seed", status |-> "ok", pre |-> store,
                again |-> resp.op = "seed"]
    /\ UNCHANGED <<now, pc, sloc>>

\* datetime.utcnow() advances between requests
Tick ==
    /\ now + TickMinutes <= NowStart + MaxTicks * TickMinutes
    /\ now' = now + TickMinutes
    /\ resp' = NoResp
    /\ UNCHANGED <<store, pc, sloc>>

\* a record written to the store by another writer
Insert(collection, record) ==
    /\ Len(store[collection]) < MaxDocs
    /\ store' = create_document(store, collection, record)
    /\ resp' = NoResp
    /\ UNCHANGED <<now, pc, sloc>>

\* number of device, health, sleep and event records
TotalDocs(st) ==
    Len(st[C_device]) + Len(st[C_healthrecord]) + Len(st[C_sleeprecord])
        + Len(st[C_event])

\* one foreign record per collection, enough to make a collection non-empty
ForeignDoc(collection) == [foreign |-> collection]

InsertForeign == \E c \in Collections : Insert(c, ForeignDoc(c))

Next == Seed \/ InsertForeign

Spec == Init /\ [][Next]_vars

-----------------------------------------------------------------------------
(* C1, C8: seed() run to completion, one request after another             *)

\* C1: two consecutive seed() calls leave every collection with the record
\* count the first call left, and a seed() of the empty store leaves each
\* of driver, device, healthrecord, sleeprecord, event with exactly 2 records.
SeedIdempotent ==
    resp.op = "seed" =>
        /\ resp.again => \A c \in Collections : Len(store[c]) = Len(resp.pre[c])
        /\ resp.pre = EmptyStore => \A c \in SeededCollections : Len(store[c]) = 2

SeedIdempotentWitness ==
    /\ resp.op = "seed"
    /\ resp.again
    /\ store[C_driver] = SeedDrivers
    /\ Len(store[C_healthrecord]) = 2
    /\ store[C_event] = <<ForeignDoc(C_event)>>

\* C8: seed() decides collection by collection: an empty seeded collection
\* gets exactly two records, a non-empty one keeps its contents, whatever
\* the other collections hold; user is never touched and no existing record
\* is removed or changed.
SeedPerCollection ==
    resp.op = "seed" =>
        /\ \A c \in SeededCollections :
              IF Len(resp.pre[c]) = 0 THEN Len(store[c]) = 2
              ELSE store[c] = resp.pre[c]
        /\ store[C_user] = resp.pre[C_user]
        /\ \A c \in Collections : \A i \in 1..Len(resp.pre[c]) :
              i <= Len(store[c]) /\ store[c][i] = resp.pre[c][i]

SeedPerCollectionWitness ==
    /\ resp.op = "seed"
    /\ Len(resp.pre[C_driver]) > 0
    /\ store[C_driver] = resp.pre[C_driver]
    /\ Len(resp.pre[C_device]) = 0
    /\ Len(store[C_device]) = 2
    /\ Len(store[C_user]) > 0

-----------------------------------------------------------------------------
(* C9: two seed() requests, one store call at a time                       *)

InitConc ==
    /\ store = EmptyStore
    /\ now = NowStart
    /\ resp = NoResp
    /\ pc = [p \in Requests |-> [at |-> "check", k |-> 1]]
    /\ sloc = NoLocals

\* control after block k; line 69 (today = utcnow()) runs before block 3
AfterBlock(p, k) ==
    /\ pc' = [pc EXCEPT ![p] = IF k < Len(SeedOrder)
                               THEN [at |-> "check", k |-> k + 1]
                               ELSE [at |-> "done", k |-> k]]
    /\ sloc' = [sloc EXCEPT ![p].today = IF k = 2 THEN now ELSE @]

\* if len(get_documents(c)) == 0:
SeedCheck(p) ==
    /\ pc[p].at = "check"
    /\ LET k == pc[p].k IN
         IF SeedCheckEmpty(store, SeedOrder[k])
         THEN /\ pc' = [pc EXCEPT ![p].at = "create1"]
              /\ sloc' = [sloc EXCEPT ![p].found = @ \cup {SeedOrder[k]}]
         ELSE AfterBlock(p, k)
    /\ UNCHANGED <<store, now, resp>>

\* create_document(c, first record)
SeedCreate1(p) ==
    /\ pc[p].at = "create1"
    /\ store' = SeedCreate(store, SeedOrder[pc[p].k], sloc[p].today, 1)
    /\ pc' = [pc EXCEPT ![p].at = "create2"]
    /\ UNCHANGED <<now, resp, sloc>>

\* create_document(c, second record)
SeedCreate2(p) ==
    /\ pc[p].at = "create2"
    /\ store' = SeedCreate(store, SeedOrder[pc[p].k], sloc[p].today, 2)
    /\ AfterBlock(p, pc[p].k)
    /\ UNCHANGED <<now, resp>>

NextConc == (\E p \in Requests : SeedCheck(p) \/ SeedCreate1(p) \/ SeedCreate2(p)) \/ Tick

SpecConc == InitConc /\ [][NextConc]_vars

BothDone == \A p \in Requests : pc[p].at = "done"

\* C9 as stated: when both concurrent seed() requests have returned, every
\* seeded collection holds exactly 2 records.
ConcSeedNoDuplicates ==
    BothDone => \A c \in SeededCollections : Len(store[c]) = 2

\* C9 amended: when both have returned, every seeded collection holds two
\* records for each request whose emptiness check found it empty, which is
\* 2 or 4 records.
ConcSeedTwoPerEmptyCheck ==
    BothDone =>
        \A c \in SeededCollections :
            /\ Len(store[c]) = 2 * Cardinality({p \in Requests : c \in sloc[p].found})
            /\ Len(store[c]) \in {2, 4}

ConcSeedWitness ==
    /\ BothDone
    /\ Len(store[C_driver]) = 4
    /\ Len(store[C_event]) = 2

-----------------------------------------------------------------------------
(* GET /dashboard/summary                                                  *)

DefaultBpSys == 140
DefaultBpDia == 90
DefaultSleepScore == 60
DefaultSleepDuration == 360

\* truthiness of d.get("is_online")
TruthyBool(o) == o # None /\ o[1]

dashboard_summary_anyDate(st, utcnow, bp_sys_threshold, bp_dia_threshold, sleep_score_threshold, sleep_duration_threshold) ==
    LET health == get_documents(st, to_collection(C_healthrecord), EmptyDict)
        sleep == get_documents(st, to_collection(C_sleeprecord), EmptyDict)
        devices == get_documents(st, to_collection(C_device), EmptyDict)
    IN  [high_bp_count |-> Len(SelectSeq(health, LAMBDA h :
                \/ GetD(h, "bp_systolic", 0) > bp_sys_threshold
                \/ GetD(h, "bp_diastolic", 0) > bp_dia_threshold)),
         low_sleep_score_count |-> Len(SelectSeq(sleep, LAMBDA r :
                GetD(r, "score", 0) < sleep_score_threshold)),
         under_sleep_duration_count |-> Len(SelectSeq(sleep, LAMBDA r :
                GetD(r, "duration_minutes", 0) < sleep_duration_threshold)),
         online_devices |-> Len(SelectSeq(devices, LAMBDA d :
                TruthyBool(Get(d, "is_online")))),
         offline_devices |-> Len(SelectSeq(devices, LAMBDA d :
                ~TruthyBool(Get(d, "is_online"))))]

dashboard_summary(st, utcnow, bp_sys_threshold, bp_dia_threshold, sleep_score_threshold, sleep_duration_threshold) ==
    LET today == strftime(utcnow)
        health == get_documents(st, to_collection(C_healthrecord), EmptyDict)
        sleep == get_documents(st, to_collection(C_sleeprecord), [date |-> today])
        devices == get_documents(st, to_collection(C_device), EmptyDict)
        high_bp == SelectSeq(health, LAMBDA h :
                       \/ GetD(h, "bp_systolic", 0) > bp_sys_threshold
                       \/ GetD(h, "bp_diastolic", 0) > bp_dia_threshold)
        low_sleep_score == SelectSeq(sleep, LAMBDA r :
                       GetD(r, "score", 0) < sleep_score_threshold)
        under_sleep == SelectSeq(sleep, LAMBDA r :
                       GetD(r, "duration_minutes", 0) < sleep_duration_threshold)
        online == SelectSeq(devices, LAMBDA d : TruthyBool(Get(d, "is_online")))
        offline == SelectSeq(devices, LAMBDA d : ~TruthyBool(Get(d, "is_online")))
    IN  [high_bp_count |-> Len(high_bp),
         low_sleep_score_count |-> Len(low_sleep_score),
         under_sleep_duration_count |-> Len(under_sleep),
         online_devices |-> Len(online),
         offline_devices |-> Len(offline)]

\* the query parameters tried: the defaults and two other settings
ThresholdChoices ==
    { <<DefaultBpSys, DefaultBpDia, DefaultSleepScore, DefaultSleepDuration>>,
      <<117, 100, 59, 321>>,
      <<200, 77, 83, 400>> }

DashboardSummary ==
    \E t \in ThresholdChoices :
        /\ resp' = [op |-> "dashboard_summary", args |-> t, pre |-> store,
                    body |-> dashboard_summary(store, now, t[1], t[2], t[3], t[4])]
        /\ UNCHANGED <<store, now, pc, sloc>>

\* records another writer may have stored: blood pressures on both sides of
\* the thresholds (two of them of one driver), sleep records of day 0 and
\* day 1, an online and an offline device
SummaryDocs(collection) ==
    CASE collection = C_healthrecord ->
           { [driver_id |-> "DRV001", bp_systolic |-> 145, bp_diastolic |-> 95],
             [driver_id |-> "DRV001", bp_systolic |-> 150, bp_diastolic |-> 78],
             [driver_id |-> "DRV002", bp_systolic |-> 118, bp_diastolic |-> 78],
             [driver_id |-> "DRV002", bp_systolic |-> 140, bp_diastolic |-> 90] }
      [] collection = C_sleeprecord ->
           { [driver_id |-> "DRV001", date |-> 0, score |-> 58, duration_minutes |-> 320],
             [driver_id |-> "DRV001", date |-> 1, score |-> 58, duration_minutes |-> 420],
             [driver_id |-> "DRV002", date |-> 1, score |-> 82, duration_minutes |-> 320],
             [driver_id |-> "DRV002", date |-> 1, score |-> 60, duration_minutes |-> 360] }
      [] collection = C_device ->
           { [device_id |-> DEV1001, is_online |-> TRUE],
             [device_id |-> DEV1002, is_online |-> FALSE] }

InsertSummaryData ==
    /\ TotalDocs(store) < MaxStore
    /\ \E c \in {C_healthrecord, C_sleeprecord, C_device} :
          \E d \in SummaryDocs(c) : Insert(c, d)

NextSummary == DashboardSummary \/ InsertSummaryData \/ Tick

SpecSummary == Init /\ [][NextSummary]_vars

\* C2: the five counts of dashboard_summary are the numbers of health
\* records over either blood-pressure threshold, of today's sleep records
\* under the score threshold, of today's sleep records under the duration
\* threshold, and of online and offline devices; every record counts for
\* itself, sleep records of another date never count.
SummaryCounts ==
    resp.op = "dashboard_summary" =>
        LET H == store[C_healthrecord]
            S == store[C_sleeprecord]
            D == store[C_device]
            t == resp.args
            Today == {i \in 1..Len(S) : S[i].date = strftime(now)}
        IN  /\ resp.body.high_bp_count =
                 Cardinality({i \in 1..Len(H) :
                     H[i].bp_systolic > t[1] \/ H[i].bp_diastolic > t[2]})
            /\ resp.body.low_sleep_score_count =
                 Cardinality({i \in Today : S[i].score < t[3]})
            /\ resp.body.under_sleep_duration_count =
                 Cardinality({i \in Today : S[i].duration_minutes < t[4]})
            /\ resp.body.online_devices =
                 Cardinality({i \in 1..Len(D) : D[i].is_online = TRUE})
            /\ resp.body.offline_devices =
                 Cardinality({i \in 1..Len(D) : D[i].is_online = FALSE})

SummaryCountsWitness ==
    /\ resp.op = "dashboard_summary"
    /\ resp.body.high_bp_count = 2
    /\ store[C_healthrecord][1].driver_id = store[C_healthrecord][2].driver_id
    /\ Len(store[C_sleeprecord]) = 2
    /\ store[C_sleeprecord][1].date # strftime(now)
    /\ store[C_sleeprecord][2].date = strftime(now)
    /\ resp.body.low_sleep_score_count = 1
    /\ resp.body.under_sleep_duration_count = 0

-----------------------------------------------------------------------------
(* GET /dashboard/readiness                                                *)

ReadyBpSys == 140
ReadyBpDia == 90
ReadyMinScore == 60
ScoreIfMissing == 100

Approved == <<"a","p","p","r","o","v","e","d">>
NotApproved == <<"n","o","t"," ","a","p","p","r","o","v","e","d">>

KeyError == [error |-> "KeyError"]
AttributeError == [error |-> "AttributeError"]

Raised(r) == "error" \in DOMAIN r

\* (x or "") on the result of dict.get / a row field
OrEmptyStr(o) == IF Truthy(o) THEN o[1] ELSE <<>>

\* (m.get(k) or {}) where k is itself the result of d.get(...) or d[...]
GetOrEmptyDict(m, k) ==
    IF k # None /\ k[1] \in DOMAIN m /\ m[k[1]] # EmptyDict THEN m[k[1]] ELSE EmptyDict

RECURSIVE IndexBy_keepFirst(_, _, _, _)
IndexBy_keepFirst(docs, key, i, m) ==
    IF i > Len(docs) THEN m
    ELSE IndexBy_keepFirst(docs, key, i + 1,
             IF docs[i][key] \in DOMAIN m THEN m ELSE DictSet(m, docs[i][key], docs[i]))

\* for s in docs: m[s[key]] = s      (every record has the key)
RECURSIVE IndexBy(_, _, _, _)
IndexBy(docs, key, i, m) ==
    IF i > Len(docs) THEN m
    ELSE IndexBy(docs, key, i + 1, DictSet(m, docs[i][key], docs[i]))

readiness_ok_missingIsZero(h, s) ==
    /\ GetD(h, "bp_systolic", 0) < ReadyBpSys
    /\ GetD(h, "bp_diastolic", 0) < ReadyBpDia
    /\ GetD(s, "score", 0) >= ReadyMinScore

\* line 173
readiness_ok(h, s) ==
    /\ GetD(h, "bp_systolic", 0) < ReadyBpSys
    /\ GetD(h, "bp_diastolic", 0) < ReadyBpDia
    /\ GetD(s, "score", ScoreIfMissing) >= ReadyMinScore

\* lines 174-182
ReadinessRow(h, s) ==
    [datetime |-> Get(h, "timestamp"),
     driver_name |-> Get(h, "driver_name"),
     device_id |-> Get(h, "device_id"),
     last_sleep_score |-> Get(s, "score"),
     last_bp_systolic |-> Get(h, "bp_systolic"),
     last_bp_diastolic |-> Get(h, "bp_diastolic"),
     status |-> IF readiness_ok(h, s) THEN Approved ELSE NotApproved]

NameHasQ_caseSensitive(r, q) == StrIn(q, OrEmptyStr(r.driver_name))

\* q.lower() in (r["driver_name"] or "").lower()
NameHasQ(r, q) == StrIn(lower(q), lower(OrEmptyStr(r.driver_name)))

\* r["status"].lower() == status.lower()
StatusIs(r, status) == lower(r.status) = lower(status)

driver_readiness(st, q, status) ==
    LET health == get_documents(st, to_collection(C_healthrecord), EmptyDict)
        sleep == get_documents(st, to_collection(C_sleeprecord), EmptyDict)
    IN  IF \E i \in 1..Len(sleep) : ~HasKey(sleep[i], "driver_id") THEN KeyError
        ELSE IF \E i \in 1..Len(health) : ~HasKey(health[i], "driver_id") THEN KeyError
        ELSE
        LET sleep_by_driver == IndexBy(sleep, "driver_id", 1, EmptyDict)
            rows == [i \in 1..Len(health) |->
                        ReadinessRow(health[i],
                            GetOrEmptyDict(sleep_by_driver, <<health[i]["driver_id"]>>))]
            rows1 == IF Truthy(q)
                     THEN SelectSeq(rows, LAMBDA r : NameHasQ(r, q[1]))
                     ELSE rows
            rows2 == IF Truthy(status)
                     THEN SelectSeq(rows1, LAMBDA r : StatusIs(r, status[1]))
                     ELSE rows1
        IN  [items |-> rows2]

Str_budi == <<"b","u","d","i">>
Str_SITI == <<"S","I","T","I">>
Str_i == <<"i">>
Str_APPROVED == <<"A","P","P","R","O","V","E","D">>
Str_Not_Approved == <<"N","o","t"," ","A","p","p","r","o","v","e","d">>
Str_appr == <<"a","p","p","r">>
Str_bUDI == <<"b","U","D","I">>

\* the (q, status) query strings tried; None is an omitted parameter and
\* <<"">> an empty one
ReadinessQueries ==
    { <<None, None>>, <<<<Str_budi>>, None>>, <<<<Str_SITI>>, None>>,
      <<None, <<Str_APPROVED>>>>, <<None, <<Str_Not_Approved>>>>,
      <<<< <<>> >>, << <<>> >>>>, <<<<Str_i>>, <<Approved>>>>,
      <<None, <<Str_appr>>>> }

DriverReadiness ==
    \E a \in ReadinessQueries :
        /\ resp' = [op |-> "driver_readiness", q |-> a[1], status |-> a[2],
                    pre |-> store, body |-> driver_readiness(store, a[1], a[2])]
        /\ UNCHANGED <<store, now, pc, sloc>>

\* health and sleep records another writer may have stored: blood pressures
\* at and around 140/90, a record without driver_name, a driver (DRV003)
\* who never has a sleep record, two scores per driver, a sleep record
\* without score
ReadinessDocs(collection) ==
    CASE collection = C_healthrecord ->
           { [driver_id |-> "DRV001", driver_name |-> BudiSantoso, device_id |-> DEV1001,
              bp_systolic |-> 145, bp_diastolic |-> 95],
             [driver_id |-> "DRV002", driver_name |-> SitiAminah, device_id |-> DEV1002,
              bp_systolic |-> 118, bp_diastolic |-> 78],
             [driver_id |-> "DRV001", driver_name |-> Str_bUDI, device_id |-> DEV1001,
              bp_systolic |-> 139, bp_diastolic |-> 89],
             [driver_id |-> "DRV003", device_id |-> DEV1002,
              bp_systolic |-> 139, bp_diastolic |-> 90],
             [driver_id |-> "DRV003", driver_name |-> SitiAminah,
              bp_systolic |-> 120, bp_diastolic |-> 80] }
      [] collection = C_sleeprecord ->
           { [driver_id |-> "DRV001", date |-> 0, score |-> 58],
             [driver_id |-> "DRV001", date |-> 1, score |-> 82],
             [driver_id |-> "DRV002", date |-> 0, score |-> 60],
             [driver_id |-> "DRV002", date |-> 0, score |-> 59],
             [driver_id |-> "DRV002", date |-> 1] }

InsertReadinessData ==
    /\ TotalDocs(store) < MaxStore
    /\ \E c \in {C_healthrecord, C_sleeprecord} :
          \E d \in ReadinessDocs(c) : Insert(c, d)

NextReadiness == DriverReadiness \/ InsertReadinessData

SpecReadiness == Init /\ [][NextReadiness]_vars

\* the last sleep record of a driver in store order, as <<record>>, or None
LastSleepOf(driver_id) ==
    LET S == store[C_sleeprecord]
        I == {i \in 1..Len(S) : S[i].driver_id = driver_id}
    IN  IF I = {} THEN None ELSE <<S[CHOOSE i \in I : \A j \in I : j <= i]>>

Unfiltered == resp.op = "driver_readiness" /\ ~Truthy(resp.q) /\ ~Truthy(resp.status)

\* C3: without filters every health record yields one row, and a row whose
\* driver has a sleep record with a score is "approved" exactly when
\* bp_systolic < 140 and bp_diastolic < 90 and the score of the driver's
\* last sleep record in store order is >= 60, and "not approved" otherwise.
ReadinessStatus ==
    Unfiltered =>
        LET H == store[C_healthrecord]
            rows == resp.body.items
        IN  /\ Len(rows) = Len(H)
            /\ \A i \in 1..Len(H) :
                 LET s == LastSleepOf(H[i].driver_id) IN
                 /\ rows[i].status \in {Approved, NotApproved}
                 /\ rows[i].last_bp_systolic = <<H[i].bp_systolic>>
                 /\ (s # None /\ "score" \in DOMAIN s[1]) =>
                      /\ rows[i].last_sleep_score = <<s[1].score>>
                      /\ rows[i].status = Approved <=>
                           /\ H[i].bp_systolic < 140
                           /\ H[i].bp_diastolic < 90
                           /\ s[1].score >= 60

ReadinessStatusWitness ==
    /\ Unfiltered
    /\ Len(store[C_sleeprecord]) = 2
    /\ store[C_sleeprecord][1].driver_id = "DRV001"
    /\ store[C_sleeprecord][2].driver_id = "DRV001"
    /\ Get(store[C_sleeprecord][1], "score") = <<82>>
    /\ Get(store[C_sleeprecord][2], "score") = <<58>>
    /\ Len(resp.body.items) = 2
    /\ resp.body.items[1].last_bp_systolic = <<139>>
    /\ resp.body.items[1].status = NotApproved
    /\ resp.body.items[2].status = NotApproved

\* C10: a row whose driver has no sleep record, or whose last sleep record
\* has no score, has last_sleep_score null and is "approved" exactly when
\* bp_systolic < 140 and bp_diastolic < 90.
MissingSleepApproves ==
    Unfiltered =>
        LET H == store[C_healthrecord]
            rows == resp.body.items
        IN  \A i \in 1..Len(H) :
                 LET s == LastSleepOf(H[i].driver_id) IN
                 (s = None \/ "score" \notin DOMAIN s[1]) =>
                      /\ rows[i].last_sleep_score = None
                      /\ rows[i].status = Approved <=>
                           (H[i].bp_systolic < 140 /\ H[i].bp_diastolic < 90)

MissingSleepApprovesWitness ==
    /\ Unfiltered
    /\ Len(resp.body.items) = 2
    /\ store[C_healthrecord][1].driver_id = "DRV003"
    /\ store[C_healthrecord][2].driver_id = "DRV002"
    /\ Len(store[C_sleeprecord]) = 2
    /\ "score" \notin DOMAIN store[C_sleeprecord][2]
    /\ store[C_sleeprecord][2].driver_id = "DRV002"
    /\ Get(store[C_sleeprecord][1], "score") = <<59>>
    /\ resp.body.items[1].status = Approved
    /\ resp.body.items[2].status = Approved
    /\ resp.body.items[2].last_sleep_score = None

\* what the row of a health record is before filtering, read from the store
StatusOf(h) ==
    LET s == LastSleepOf(h.driver_id)
        score == IF s # None /\ "score" \in DOMAIN s[1] THEN s[1].score ELSE 100
    IN  IF h.bp_systolic < 140 /\ h.bp_diastolic < 90 /\ score >= 60
        THEN Approved ELSE NotApproved

\* a contains b, ignoring case
ContainsIgnoringCase(a, b) ==
    \E off \in 0..(Len(a) - Len(b)) :
        \A k \in 1..Len(b) : LowerChar(a[off + k]) = LowerChar(b[k])

EqualIgnoringCase(a, b) ==
    Len(a) = Len(b) /\ \A k \in 1..Len(a) : LowerChar(a[k]) = LowerChar(b[k])

\* C4: the rows returned are exactly the rows of the health records whose
\* driver_name contains q ignoring case (when a non-empty q is given) and
\* whose status label equals status ignoring case (when a non-empty status
\* is given), one per matching health record, in store order.
ReadinessFilter ==
    resp.op = "driver_readiness" =>
        LET H == store[C_healthrecord]
            rows == resp.body.items
            Name(h) == IF "driver_name" \in DOMAIN h THEN h.driver_name ELSE <<>>
            M == {i \in 1..Len(H) :
                    /\ Truthy(resp.q) => ContainsIgnoringCase(Name(H[i]), resp.q[1])
                    /\ Truthy(resp.status) =>
                           EqualIgnoringCase(StatusOf(H[i]), resp.status[1])}
            Nth(j) == CHOOSE i \in M : Cardinality({k \in M : k <= i}) = j
        IN  /\ Len(rows) = Cardinality(M)
            /\ \A j \in 1..Len(rows) :
                 /\ rows[j].driver_name = Get(H[Nth(j)], "driver_name")
                 /\ rows[j].last_bp_systolic = <<H[Nth(j)].bp_systolic>>
                 /\ rows[j].last_bp_diastolic = <<H[Nth(j)].bp_diastolic>>
                 /\ rows[j].status = StatusOf(H[Nth(j)])

ReadinessFilterWitness ==
    /\ resp.op = "driver_readiness"
    /\ resp.q = <<Str_budi>>
    /\ Len(store[C_healthrecord]) = 2
    /\ Get(store[C_healthrecord][1], "driver_name") = <<SitiAminah>>
    /\ Get(store[C_healthrecord][2], "driver_name") = <<Str_bUDI>>
    /\ Len(resp.body.items) = 1
    /\ resp.body.items[1].driver_name = <<Str_bUDI>>

-----------------------------------------------------------------------------
(* GET /devices/{device_id}                                                *)

NotFound == [error |-> "NotFound", status_code |-> 404, detail |-> "Device not found"]

device_detail_anyDevice(st, device_id) ==
    LET devices == get_documents(st, to_collection(C_device), EmptyDict)
        health == get_documents(st, to_collection(C_healthrecord), [device_id |-> device_id])
    IN  IF devices = <<>> THEN NotFound
        ELSE [device |-> devices[1],
              health |-> IF health # <<>> THEN <<health[1]>> ELSE None,
              sleep |-> get_documents(st, to_collection(C_sleeprecord),
                                      [device_id |-> device_id]),
              events |-> get_documents(st, to_collection(C_event),
                                       [device_id |-> device_id])]

device_detail(st, device_id) ==
    LET devices == get_documents(st, to_collection(C_device), [device_id |-> device_id])
    IN  IF devices = <<>> THEN NotFound
        ELSE
        LET device == devices[1]
            health == get_documents(st, to_collection(C_healthrecord),
                                    [device_id |-> device_id])
            sleep_today == get_documents(st, to_collection(C_sleeprecord),
                                         [device_id |-> device_id])
            events == get_documents(st, to_collection(C_event),
                                    [device_id |-> device_id])
        IN  [device |-> device,
             health |-> IF health # <<>> THEN <<health[1]>> ELSE None,
             sleep |-> sleep_today,
             events |-> events]

DEV9999 == <<"D","E","V","-","9","9","9","9">>

\* the path parameters tried: the two seeded ids and one no device uses
DeviceIds == {DEV1001, DEV1002, DEV9999}

DeviceDetail ==
    \E id \in DeviceIds :
        /\ resp' = [op |-> "device_detail", device_id |-> id, pre |-> store,
                    body |-> device_detail(store, id)]
        /\ UNCHANGED <<store, now, pc, sloc>>

\* records of two devices; health records that differ in heart_rate so that
\* the first of a device can be told from the others
DetailDocs(collection) ==
    CASE collection = C_device ->
           { [device_id |-> DEV1001, driver_name |-> BudiSantoso, battery |-> 87],
             [device_id |-> DEV1002, driver_name |-> SitiAminah, battery |-> 22] }
      [] collection = C_healthrecord ->
           { [device_id |-> DEV1001, heart_rate |-> 78],
             [device_id |-> DEV1001, heart_rate |-> 90],
             [device_id |-> DEV1002, heart_rate |-> 82] }
      [] collection = C_sleeprecord ->
           { [device_id |-> DEV1001, date |-> 0, score |-> 58],
             [device_id |-> DEV1002, date |-> 0, score |-> 82] }
      [] collection = C_event ->
           { [device_id |-> DEV1001, status_event |-> LowBattery],
             [device_id |-> DEV1002, status_event |-> SOS] }

InsertDetailData ==
    /\ TotalDocs(store) < MaxStore
    /\ \E c \in {C_device, C_healthrecord, C_sleeprecord, C_event} :
          \E d \in DetailDocs(c) : Insert(c, d)

NextDetail == DeviceDetail \/ InsertDetailData

SpecDetail == Init /\ [][NextDetail]_vars

\* the j-th smallest member of a set of indexes
NthOf(M, j) == CHOOSE i \in M : Cardinality({k \in M : k <= i}) = j

\* res is the subsequence of docs at the indexes M
IsSelection(res, docs, M) ==
    /\ Len(res) = Cardinality(M)
    /\ \A j \in 1..Len(res) : res[j] = docs[NthOf(M, j)]

WithDevice(docs, id) == {i \in 1..Len(docs) : docs[i].device_id = id}

\* C5: device_detail raises NotFound exactly when no stored device has the
\* requested device_id; otherwise it returns such a device, the first health
\* record of that device_id or null, and all sleep records and all events
\* of that device_id; the store is the same after the call.
DeviceDetailContract ==
    resp.op = "device_detail" =>
        LET id == resp.device_id
            Hm == WithDevice(store[C_healthrecord], id)
        IN  /\ resp.body = NotFound <=> WithDevice(store[C_device], id) = {}
            /\ Raised(resp.body) => resp.body = NotFound
            /\ ~Raised(resp.body) =>
                 /\ resp.body.device.device_id = id
                 /\ \E i \in 1..Len(store[C_device]) : store[C_device][i] = resp.body.device
                 /\ resp.body.health =
                      IF Hm = {} THEN None
                      ELSE <<store[C_healthrecord][CHOOSE i \in Hm : \A j \in Hm : i <= j]>>
                 /\ IsSelection(resp.body.sleep, store[C_sleeprecord],
                                WithDevice(store[C_sleeprecord], id))
                 /\ IsSelection(resp.body.events, store[C_event],
                                WithDevice(store[C_event], id))
            /\ store = resp.pre

DeviceDetailWitness ==
    /\ resp.op = "device_detail"
    /\ resp.device_id = DEV1001
    /\ ~Raised(resp.body)
    /\ Len(store[C_healthrecord]) = 2
    /\ resp.body.health = <<[device_id |-> DEV1001, heart_rate |-> 90]>>
    /\ store[C_healthrecord][2] = [device_id |-> DEV1001, heart_rate |-> 78]
    /\ Len(store[C_event]) = 1
    /\ resp.body.events = <<>>
    /\ resp.body.sleep = <<>>

-----------------------------------------------------------------------------
(* GET /dashboard/map                                                      *)

\* (d.get(k) or {})
GetDictOrEmpty(d, k) ==
    IF HasKey(d, k) /\ d[k] # EmptyDict THEN d[k] ELSE EmptyDict

map_points_eventLocation(st) ==
    LET devices == get_documents(st, to_collection(C_device), EmptyDict)
        events == get_documents(st, to_collection(C_event), EmptyDict)
        latest_event_by_device == IndexBy(events, "device_id", 1, EmptyDict)
    IN  [items |-> [i \in 1..Len(devices) |->
            LET d == devices[i]
                ev == GetOrEmptyDict(latest_event_by_device, Get(d, "device_id"))
                loc == IF ev # EmptyDict THEN GetDictOrEmpty(ev, "location")
                       ELSE GetDictOrEmpty(d, "last_location")
            IN  [device_id |-> Get(d, "device_id"),
                 driver_name |-> Get(d, "driver_name"),
                 battery |-> Get(d, "battery"),
                 event |-> Get(ev, "status_event"),
                 address |-> Get(loc, "address"),
                 lat |-> Get(loc, "lat"),
                 lng |-> Get(loc, "lng")]]]

map_points(st) ==
    LET devices == get_documents(st, to_collection(C_device), EmptyDict)
        health == get_documents(st, to_collection(C_healthrecord), EmptyDict)
        events == get_documents(st, to_collection(C_event), EmptyDict)
    IN  IF \E i \in 1..Len(health) : ~HasKey(health[i], "device_id") THEN KeyError
        ELSE IF \E i \in 1..Len(events) : ~HasKey(events[i], "device_id") THEN KeyError
        ELSE
        LET health_by_device == IndexBy(health, "device_id", 1, EmptyDict)
            latest_event_by_device == IndexBy(events, "device_id", 1, EmptyDict)
            points == [i \in 1..Len(devices) |->
                LET d == devices[i]
                    loc == GetDictOrEmpty(d, "last_location")
                    h == GetOrEmptyDict(health_by_device, Get(d, "device_id"))
                    ev == GetOrEmptyDict(latest_event_by_device, Get(d, "device_id"))
                IN  [device_id |-> Get(d, "device_id"),
                     driver_name |-> Get(d, "driver_name"),
                     battery |-> Get(d, "battery"),
                     event |-> Get(ev, "status_event"),
                     address |-> Get(loc, "address"),
                     lat |-> Get(loc, "lat"),
                     lng |-> Get(loc, "lng")]]
        IN  [items |-> points]

MapPoints ==
    /\ resp' = [op |-> "map_points", pre |-> store, body |-> map_points(store)]
    /\ UNCHANGED <<store, now, pc, sloc>>

Bogor == <<"B","o","g","o","r">>
FallDown == <<"F","a","l","l"," ","D","o","w","n">>
DEV1003 == <<"D","E","V","-","1","0","0","3">>

\* devices with and without last_location, events whose own location is
\* elsewhere, two events of one device, an event of a device nobody stored
MapDocs(collection) ==
    CASE collection = C_device ->
           { [device_id |-> DEV1001, driver_name |-> BudiSantoso, battery |-> 87,
              last_location |-> [lat |-> "-6.2", lng |-> "106.82", address |-> Jakarta]],
             [device_id |-> DEV1002, driver_name |-> SitiAminah, battery |-> 22,
              last_location |-> [lat |-> "-6.21", lng |-> "106.85", address |-> Jakarta]],
             [device_id |-> DEV1002, battery |-> 5] }
      [] collection = C_healthrecord ->
           { [device_id |-> DEV1001, heart_rate |-> 78] }
      [] collection = C_event ->
           { [device_id |-> DEV1001, status_event |-> LowBattery,
              location |-> [lat |-> "-6.6", lng |-> "106.8", address |-> Bogor]],
             [device_id |-> DEV1001, status_event |-> SOS,
              location |-> [lat |-> "-6.6", lng |-> "106.8", address |-> Bogor]],
             [device_id |-> DEV1002, status_event |-> SOS],
             [device_id |-> DEV1003, status_event |-> FallDown] }

InsertMapData ==
    /\ TotalDocs(store) < MaxStore
    /\ \E c \in {C_device, C_healthrecord, C_event} :
          \E d \in MapDocs(c) : Insert(c, d)

NextMap == MapPoints \/ InsertMapData

SpecMap == Init /\ [][NextMap]_vars

\* C6: map_points returns one point per device in device order; its event
\* is the status_event of the last event in store order with the device's
\* device_id, or null when there is none; its address, lat and lng are
\* those of the device's last_location, not of the event's location.
MapPointsContract ==
    resp.op = "map_points" =>
        LET D == store[C_device]
            E == store[C_event]
            points == resp.body.items
        IN  /\ Len(points) = Len(D)
            /\ \A i \in 1..Len(D) :
                 LET I == WithDevice(E, D[i].device_id)
                     last == CHOOSE k \in I : \A j \in I : j <= k
                 IN  /\ points[i].device_id = <<D[i].device_id>>
                     /\ points[i].battery = <<D[i].battery>>
                     /\ points[i].event =
                          IF I = {} THEN None ELSE <<E[last].status_event>>
                     /\ IF "last_location" \in DOMAIN D[i]
                        THEN /\ points[i].address = <<D[i].last_location.address>>
                             /\ points[i].lat = <<D[i].last_location.lat>>
                             /\ points[i].lng = <<D[i].last_location.lng>>
                        ELSE /\ points[i].address = None
                             /\ points[i].lat = None
                             /\ points[i].lng = None

MapPointsWitness ==
    /\ resp.op = "map_points"
    /\ Len(resp.body.items) = 2
    /\ Len(store[C_event]) = 2
    /\ store[C_event][1].status_event = SOS
    /\ store[C_event][2].status_event = LowBattery
    /\ store[C_event][1].device_id = DEV1001
    /\ store[C_event][2].device_id = DEV1001
    /\ resp.body.items[1].event = None
    /\ resp.body.items[2].event = <<LowBattery>>
    /\ resp.body.items[2].address = <<Jakarta>>

-----------------------------------------------------------------------------
(* GET /dashboard/events, GET /devices, GET /devices/{device_id}/sleep      *)

events_table(st, q, status_event) ==
    LET events == get_documents(st, to_collection(C_event), EmptyDict)
        rows == [i \in 1..Len(events) |->
                    [datetime |-> Get(events[i], "timestamp"),
                     driver_name |-> Get(events[i], "driver_name"),
                     device_id |-> Get(events[i], "device_id"),
                     status_event |-> Get(events[i], "status_event"),
                     address |-> Get(GetDictOrEmpty(events[i], "location"), "address")]]
        rows1 == IF Truthy(q)
                 THEN SelectSeq(rows, LAMBDA r : NameHasQ(r, q[1]))
                 ELSE rows
    IN  IF ~Truthy(status_event) THEN [items |-> rows1]
        \* None.lower() on a row without status_event
        ELSE IF \E i \in 1..Len(rows1) : rows1[i].status_event = None
        THEN AttributeError
        ELSE [items |-> SelectSeq(rows1, LAMBDA r :
                            lower(r.status_event[1]) = lower(status_event[1]))]

\* for i, d in enumerate(devices, start=1): d["no"] = i
RECURSIVE Numbered(_, _)
Numbered(devices, i) ==
    IF i > Len(devices) THEN devices
    ELSE Numbered([devices EXCEPT ![i] = DictSet(@, "no", i)], i + 1)

devices_list(st, q) ==
    LET devices == get_documents(st, to_collection(C_device), EmptyDict)
        devices1 == IF Truthy(q)
                    THEN SelectSeq(devices, LAMBDA d :
                             StrIn(lower(q[1]),
                                   lower(GetD(d, "device_id", <<>>) \o <<" ">>
                                         \o OrEmptyStr(Get(d, "driver_name")))))
                    ELSE devices
    IN  [items |-> Numbered(devices1, 1)]

device_sleep(st, device_id, date) ==
    LET filt == IF date # None
                THEN [device_id |-> device_id, date |-> date[1]]
                ELSE [device_id |-> device_id]
    IN  [items |-> get_documents(st, to_collection(C_sleeprecord), filt)]

Str_sos == <<"s","o","s">>
Str_dev == <<"d","e","v">>

EventsTable ==
    \E a \in { <<None, None>>, <<<<Str_budi>>, None>>, <<None, <<Str_sos>>>> } :
        /\ resp' = [op |-> "events_table", q |-> a[1], status_event |-> a[2],
                    pre |-> store, body |-> events_table(store, a[1], a[2])]
        /\ UNCHANGED <<store, now, pc, sloc>>

DevicesList ==
    \E q \in {None, <<Str_dev>>, <<Str_budi>>} :
        /\ resp' = [op |-> "devices_list", q |-> q, pre |-> store,
                    body |-> devices_list(store, q)]
        /\ UNCHANGED <<store, now, pc, sloc>>

DeviceSleep ==
    \E id \in {DEV1001, DEV9999} : \E date \in {None, <<0>>} :
        /\ resp' = [op |-> "device_sleep", device_id |-> id, date |-> date,
                    pre |-> store, body |-> device_sleep(store, id, date)]
        /\ UNCHANGED <<store, now, pc, sloc>>

\* for each collection a record with all its fields and a record that
\* lacks driver_id, device_id, driver_name or status_event
SparseDocs(collection) ==
    CASE collection = C_device ->
           { [device_id |-> DEV1001, driver_name |-> BudiSantoso, is_online |-> TRUE,
              battery |-> 87],
             [is_online |-> FALSE, battery |-> 22] }
      [] collection = C_healthrecord ->
           { [driver_id |-> "DRV001", driver_name |-> BudiSantoso, device_id |-> DEV1001,
              bp_systolic |-> 145, bp_diastolic |-> 95],
             [bp_systolic |-> 118, bp_diastolic |-> 78] }
      [] collection = C_sleeprecord ->
           { [driver_id |-> "DRV001", device_id |-> DEV1001, date |-> 0, score |-> 58,
              duration_minutes |-> 320],
             [date |-> 0, score |-> 82, duration_minutes |-> 420] }
      [] collection = C_event ->
           { [driver_id |-> "DRV001", driver_name |-> BudiSantoso, device_id |-> DEV1001,
              status_event |-> SOS],
             [driver_id |-> "DRV002", timestamp |-> 0] }

InsertSparseData ==
    /\ TotalDocs(store) < MaxSparse
    /\ \E c \in {C_device, C_healthrecord, C_sleeprecord, C_event} :
          \E d \in SparseDocs(c) : Insert(c, d)

NextSparse ==
    \/ DashboardSummary
    \/ DriverReadiness
    \/ EventsTable
    \/ MapPoints
    \/ DevicesList
    \/ DeviceDetail
    \/ DeviceSleep
    \/ InsertSparseData

SpecSparse == Init /\ [][NextSparse]_vars

\* C7: no request fails except device_detail with NotFound; with records
\* that lack driver_id, device_id, driver_name or status_event in the store
\* dashboard_summary, driver_readiness, events_table, map_points,
\* devices_list and device_sleep still return a result.
OnlyNotFoundIsRaised ==
    (resp.op # "none" /\ Raised(resp.body)) =>
        (resp.op = "device_detail" /\ resp.body = NotFound)

====
